---- MODULE Spec2Model ----
(***************************************************************************)
(* Model of SmartListenerPlugin (src/main.py): the relevance-gated message *)
(* routing of a group-chat plugin.  Texts are sequences of one-character   *)
(* strings, so that the prefix regex, strip() and lower() are computed.    *)
(***************************************************************************)
EXTENDS Integers, Sequences, FiniteSets, TLC

VARIABLES
    enabled,      \* self.enabled
    providerCfg,  \* "unset" | "notfound" | "found": relevance_checker_provider_id / get_provider_by_id
    cached,       \* self._relevance_checker_provider is set (truthy)
    warnings,     \* number of missing-provider warnings logged
    history,      \* self._message_history: function from the keys present to their deques
    log,          \* ghost: for every key present, every text appended since the buffer was created
    slots,        \* per frame, the invocation of on_group_message_filtered running in it or the last one that returned
    outb,         \* ghost: the last invocation of on_message_decorated and the chain it leaves
    nEvents       \* number of handler invocations started

vars == <<enabled, providerCfg, cached, warnings, history, log, slots, outb, nEvents>>

---------------------------------------------------------------------------
(* Bounds *)

MaxEvents == 2

(* Program constants *)

MESSAGE_HISTORY_LENGTH == 5

---------------------------------------------------------------------------
(* Texts *)

WS == {" ", "\t", "\n"}

\* "[a/b]: " , the annotation alone
T_pre == <<"[", "a", "/", "b", "]", ":", " ">>
T_hi == <<"h", "i">>
T_yo == <<"y", "o">>

\* MESSAGE_PREFIX_PATTERN = ^\[.*?\/.*?\]:\s*  (no flags: "." does not match "\n").
\* FirstAt(t, from, P(_)) is the least index >= from satisfying P, or 0.
RECURSIVE FirstSlash(_, _)
FirstSlash(t, i) ==
    IF i > Len(t) THEN 0
    ELSE IF t[i] = "/" THEN i ELSE FirstSlash(t, i + 1)

RECURSIVE FirstClose(_, _)
FirstClose(t, j) ==
    IF j + 1 > Len(t) THEN 0
    ELSE IF t[j] = "]" /\ t[j + 1] = ":" THEN j ELSE FirstClose(t, j + 1)

RECURSIVE SkipWs(_, _)
SkipWs(t, k) ==
    IF k <= Len(t) /\ t[k] \in WS THEN SkipWs(t, k + 1) ELSE k

\* Length of the match of MESSAGE_PREFIX_PATTERN at the start of t, or 0 when
\* the pattern does not match (a match is never empty: it holds "[", "/", "]:").
PrefixMatchLen(t) ==
    IF Len(t) = 0 \/ t[1] # "[" THEN 0
    ELSE LET i == FirstSlash(t, 2) IN
         IF i = 0 THEN 0
         ELSE LET j == FirstClose(t, i + 1) IN
              IF j = 0 THEN 0
              ELSE IF \E k \in 2..(j - 1) : t[k] = "\n" THEN 0
              ELSE SkipWs(t, j + 2) - 1

\* mutant: every leading annotation is removed, not only the first
RECURSIVE Normalize_AllLeading(_)
Normalize_AllLeading(t) ==
    IF PrefixMatchLen(t) = 0 THEN t
    ELSE Normalize_AllLeading(SubSeq(t, PrefixMatchLen(t) + 1, Len(t)))

\* MESSAGE_PREFIX_PATTERN.sub("", text, count=1)
Normalize(t) == SubSeq(t, PrefixMatchLen(t) + 1, Len(t))

T_pre_hi == T_pre \o T_hi
T_pre_yo == T_pre \o T_yo

\* str.strip(): leading and trailing whitespace removed
RECURSIVE StripLeft(_)
StripLeft(t) == IF t # <<>> /\ Head(t) \in WS THEN StripLeft(Tail(t)) ELSE t

RECURSIVE StripRight(_)
StripRight(t) ==
    IF t # <<>> /\ t[Len(t)] \in WS THEN StripRight(SubSeq(t, 1, Len(t) - 1)) ELSE t

Strip(t) == StripRight(StripLeft(t))

\* str.lower() on the letters the model uses
LowerChar(c) ==
    CASE c = "Y" -> "y"
      [] c = "E" -> "e"
      [] c = "S" -> "s"
      [] c = "N" -> "n"
      [] c = "O" -> "o"
      [] OTHER -> c

Lower(t) == [i \in 1..Len(t) |-> LowerChar(t[i])]

T_yes == <<"y", "e", "s">>

---------------------------------------------------------------------------
(* Channel identities.  The code tests "not group_id", compares             *)
(* str(group_id) with the whitelist and keys the history table by group_id  *)
(* itself, so an identity keeps its Python type next to its text.           *)

GNone == [t |-> "none", v |-> "None"]
G100s == [t |-> "str", v |-> "100"]
G100i == [t |-> "int", v |-> "100"]
G200s == [t |-> "str", v |-> "200"]

GroupIds == {GNone, G100s, G100i, G200s}

\* bool(group_id)
Truthy(g) == g.t # "none" /\ g.v # "" /\ ~(g.t = "int" /\ g.v = "0")

\* str(group_id)
Str(g) == g.v

\* self.group_whitelist (config): the one whitelisted channel
group_whitelist == {"100"}

---------------------------------------------------------------------------
(* History table *)

EmptyTable == [k \in {} |-> <<>>]

\* mutant: a full deque drops its newest entry to make room
DequeAppend_DropNewest(q, x) ==
    IF Len(q) >= MESSAGE_HISTORY_LENGTH
    THEN Append(SubSeq(q, 1, Len(q) - 1), x)
    ELSE Append(q, x)

\* deque(maxlen=MESSAGE_HISTORY_LENGTH).append: a full deque drops its oldest entry
DequeAppend(q, x) ==
    IF Len(q) >= MESSAGE_HISTORY_LENGTH THEN Append(Tail(q), x) ELSE Append(q, x)

\* mutant: no guard against an empty text
AddMessageToHistory_NoGuard(h, g, t) ==
    [k \in (DOMAIN h) \cup {g} |->
        IF k = g
        THEN DequeAppend(IF g \in DOMAIN h THEN h[g] ELSE <<>>, t)
        ELSE h[k]]

\* mutant: the new entry goes in front of the entries already held
AddMessageToHistory_AppendLeft(h, g, t) ==
    IF t = <<>> THEN h
    ELSE [k \in (DOMAIN h) \cup {g} |->
            IF k = g
            THEN LET q == <<t>> \o (IF g \in DOMAIN h THEN h[g] ELSE <<>>)
                 IN SubSeq(q, 1, IF Len(q) > MESSAGE_HISTORY_LENGTH
                                 THEN MESSAGE_HISTORY_LENGTH ELSE Len(q))
            ELSE h[k]]

\* _add_message_to_history
AddMessageToHistory(h, g, t) ==
    IF t = <<>> THEN h
    ELSE [k \in (DOMAIN h) \cup {g} |->
            IF k = g
            THEN DequeAppend(IF g \in DOMAIN h THEN h[g] ELSE <<>>, t)
            ELSE h[k]]

\* _get_history_messages
GetHistoryMessages(h, g) == IF g \in DOMAIN h THEN h[g] ELSE <<>>

\* _build_slm_prompt.  A prompt is a sequence of strings: the fixed phrases
\* are one string each, a message is its characters.
\* str(i + 1) for the positions a snapshot can have
IndexStr(i) == <<"1", "2", "3", "4", "5">>[i]

NoHistoryLine == <<"None (This is the start of a new potential conversation thread).">>

\* "\n".join(parts)
RECURSIVE JoinLines(_)
JoinLines(parts) ==
    IF parts = <<>> THEN <<>>
    ELSE IF Len(parts) = 1 THEN parts[1]
    ELSE parts[1] \o <<"\n">> \o JoinLines(Tail(parts))

\* f"{i + 1}. {msg}"
HistoryLine(i, msg) == <<IndexStr(i), ".", " ">> \o msg

BuildSlmPrompt(history_messages, latest_message) ==
    LET listed ==
            IF history_messages = <<>> THEN <<NoHistoryLine>>
            ELSE [i \in 1..Len(history_messages) |-> HistoryLine(i, history_messages[i])]
        closing ==
            << <<"\n", "Latest Message: ">> \o latest_message,
               <<"\n", "Considering the chat history above, is the LAST message relevant to the character 'Bot'? Reply ONLY with 'yes' or 'no'.">> >>
    IN JoinLines(<< <<"Chat History:">> >> \o listed \o closing)

\* ghost: the non-empty texts handed to _add_message_to_history, per key
LogAppend(l, g, t) ==
    IF t = <<>> THEN l
    ELSE [k \in (DOMAIN l) \cup {g} |->
            IF k = g
            THEN Append(IF g \in DOMAIN l THEN l[g] ELSE <<>>, t)
            ELSE l[k]]

---------------------------------------------------------------------------
(* Collaborators' answers *)

\* slm_provider.text_chat: raises, returns None, or returns a response whose
\* completion_text is the given text (<<>> also stands for completion_text None)
RespRaise == [k |-> "raise", text |-> <<>>]
RespNone == [k |-> "none", text |-> <<>>]
RespText(t) == [k |-> "text", text |-> t]

T_no == <<"n", "o">>
T_YeS == <<" ", "Y", "e", "S", "\n">>
T_yes_please == <<"y", "e", "s", " ", "p", "l", "e", "a", "s", "e">>

Responses ==
    {RespRaise, RespNone, RespText(<<>>), RespText(T_yes), RespText(T_YeS),
     RespText(T_no), RespText(T_yes_please)}

\* mutant: the answer is lowercased but not trimmed
Judgment_NoStrip(r) ==
    IF r.k = "text" /\ r.text # <<>> THEN Lower(r.text) ELSE <<>>

\* relevance_judgment (lines 153-155)
Judgment(r) ==
    IF r.k = "text" /\ r.text # <<>> THEN Lower(Strip(r.text)) ELSE <<>>

\* conversation_manager.get_curr_conversation_id: raises, None, "" or an id
CidNone == "<None>"
CidAnswers == {"<raise>", CidNone, "", "c1"}
CidTruthy(c) == c # CidNone /\ c # ""

\* conversation_manager.get_conversation: raises, None, or a conversation
\* object whose .history is a string
NoConv == [k |-> "none", history |-> ""]
ConvRaise == [k |-> "raise", history |-> ""]
Conv(payload) == [k |-> "conv", history |-> payload]
Payloads == {"[1]", "["}
ConvAnswers == {ConvRaise, NoConv} \cup {Conv(x) : x \in Payloads}

\* json.loads on the payloads above: the decoded list, or JSONDecodeError
JsonLoads(payload) ==
    CASE payload = "[1]" -> [ok |-> TRUE, val |-> <<1>>]
      [] payload = "[" -> [ok |-> FALSE, val |-> <<>>]

\* lines 174-179 / 196-201: contexts for a found conversation
DecodeContexts(conv) ==
    IF JsonLoads(conv.history).ok THEN JsonLoads(conv.history).val ELSE <<>>

---------------------------------------------------------------------------
(* Inbound events and the handler's frame *)

RawTexts == {<<>>, T_pre, T_hi, T_pre_yo}

\* self: get_sender_id() == get_self_id();  at: is_at_or_wake_command
InEvents == [group : GroupIds, text : RawTexts, self : BOOLEAN, at : BOOLEAN]

Procs == {"h1", "h2"}

\* The frame of one invocation of on_group_message_filtered.  pc is the
\* suspension point it waits at; out is how it ended; group is the event's
\* channel identity.  calls, lookups, req and handled are what the invocation
\* did to its collaborators and event.
IdleFrame ==
    [pc |-> "idle", out |-> "none", group |-> GNone, text |-> <<>>,
     snap |-> <<>>, lookups |-> 0, calls |-> 0, judg |-> <<>>,
     sid |-> CidNone, key |-> CidNone, conv |-> NoConv,
     ctx |-> <<>>, req |-> <<>>, handled |-> FALSE]

Done(f, how) == [f EXCEPT !.pc = "done", !.out = how]

\* lines 142-149: the prompt text_chat is called with by the invocation in
\* frame f, built from its snapshot and its cleaned text
SlmPrompt(f) == BuildSlmPrompt(f.snap, f.text)

\* mutant: a provider id that is not found is treated as a provider
GetRelevanceCheckerProvider_NotFoundPassesOn(c, cfg) ==
    IF c THEN [found |-> TRUE, cached |-> TRUE, warn |-> 0]
    ELSE IF cfg \in {"found", "notfound"} THEN [found |-> TRUE, cached |-> TRUE, warn |-> 0]
    ELSE [found |-> FALSE, cached |-> FALSE, warn |-> 1]

\* _get_relevance_checker_provider: the provider it returns (found), the
\* cache it leaves and the warnings it logs
GetRelevanceCheckerProvider(c, cfg) ==
    IF c THEN [found |-> TRUE, cached |-> TRUE, warn |-> 0]
    ELSE IF cfg = "found" THEN [found |-> TRUE, cached |-> TRUE, warn |-> 0]
    ELSE [found |-> FALSE, cached |-> FALSE, warn |-> 1]

\* mutant: the sender is not compared with the bot's own identity
InboundFilter_NoSelfCheck(ev) ==
    IF ~enabled THEN "disabled"
    ELSE IF ~Truthy(ev.group) THEN "nogroup"
    ELSE IF Str(ev.group) \notin group_whitelist THEN "notwhitelisted"
    ELSE IF ev.text = <<>> THEN "empty_or_self"
    ELSE IF Normalize(ev.text) = <<>> THEN "empty_after_clean"
    ELSE "pass"

\* lines 97-120: the reason the message is dropped before history, or "pass"
InboundFilter(ev) ==
    IF ~enabled THEN "disabled"
    ELSE IF ~Truthy(ev.group) THEN "nogroup"
    ELSE IF Str(ev.group) \notin group_whitelist THEN "notwhitelisted"
    ELSE IF ev.text = <<>> \/ ev.self THEN "empty_or_self"
    ELSE IF Normalize(ev.text) = <<>> THEN "empty_after_clean"
    ELSE "pass"

IdleOut == [out |-> "none", orig |-> <<>>, chain |-> <<>>, added |-> <<>>]

\* The invocation in frame p returns; the frame keeps what it did
Return(p, f, how) == slots' = [slots EXCEPT ![p] = Done(f, how)]

\* The invocation in frame p waits at pc
Suspend(p, f, pc) == slots' = [slots EXCEPT ![p] = [f EXCEPT !.pc = pc]]

\* mutant: a direct address returns before the message is added to history
InboundStart_DirectNotRecorded(p, ev) ==
    /\ slots[p].pc \in {"idle", "done"}
    /\ nEvents' = nEvents + 1
    /\ UNCHANGED <<enabled, providerCfg, outb>>
    /\ LET why == InboundFilter(ev)
           f0 == [IdleFrame EXCEPT !.group = ev.group]
           cleaned == Normalize(ev.text)
           f1 == [f0 EXCEPT !.text = cleaned]
           prov == GetRelevanceCheckerProvider(cached, providerCfg)
       IN
       IF why # "pass"
       THEN /\ Return(p, f0, why)
            /\ UNCHANGED <<history, log, cached, warnings>>
       ELSE /\ IF ev.at
               THEN /\ Return(p, f1, "direct")
                    /\ UNCHANGED <<history, log, cached, warnings>>
               ELSE /\ history' = AddMessageToHistory(history, ev.group, cleaned)
                    /\ log' = LogAppend(log, ev.group, cleaned)
                    /\ cached' = prov.cached
                    /\ warnings' = warnings + prov.warn
                    /\ IF ~prov.found
                       THEN Return(p, [f1 EXCEPT !.lookups = 1], "noprovider")
                       ELSE Suspend(p, [f1 EXCEPT !.lookups = 1,
                                                  !.snap = GetHistoryMessages(history', ev.group),
                                                  !.calls = 1],
                                    "await_slm")

\* on_group_message_filtered, lines 97-148: from the call to the first await
InboundStart(p, ev) ==
    /\ slots[p].pc \in {"idle", "done"}
    /\ nEvents' = nEvents + 1
    /\ UNCHANGED <<enabled, providerCfg, outb>>
    /\ LET why == InboundFilter(ev)
           f0 == [IdleFrame EXCEPT !.group = ev.group]
           cleaned == Normalize(ev.text)
           f1 == [f0 EXCEPT !.text = cleaned]
           prov == GetRelevanceCheckerProvider(cached, providerCfg)
       IN
       IF why # "pass"
       THEN /\ Return(p, f0, why)
            /\ UNCHANGED <<history, log, cached, warnings>>
       ELSE /\ history' = AddMessageToHistory(history, ev.group, cleaned)
            /\ log' = LogAppend(log, ev.group, cleaned)
            /\ IF ev.at
               THEN /\ Return(p, f1, "direct")
                    /\ UNCHANGED <<cached, warnings>>
               ELSE /\ cached' = prov.cached
                    /\ warnings' = warnings + prov.warn
                    /\ IF ~prov.found
                       THEN Return(p, [f1 EXCEPT !.lookups = 1], "noprovider")
                       ELSE Suspend(p, [f1 EXCEPT !.lookups = 1,
                                                  !.snap = GetHistoryMessages(history', ev.group),
                                                  !.calls = 1],
                                    "await_slm")

\* mutant: a classifier call that raises is made again
SlmReturn_RetryOnError(p, r) ==
    /\ slots[p].pc = "await_slm"
    /\ LET f == slots[p]
           judg == Judgment(r)
       IN
       IF r.k = "raise" THEN Suspend(p, [f EXCEPT !.calls = 2], "await_slm")
       ELSE IF judg = T_yes THEN Suspend(p, [f EXCEPT !.judg = judg], "await_cid")
       ELSE Return(p, [f EXCEPT !.judg = judg], "notrelevant")
    /\ UNCHANGED <<enabled, providerCfg, cached, warnings, history, log, outb, nEvents>>

\* lines 148-165: text_chat answers (or raises); the verdict is taken and, for
\* "yes", get_curr_conversation_id is awaited
SlmReturn(p, r) ==
    /\ slots[p].pc = "await_slm"
    /\ LET f == slots[p]
           judg == Judgment(r)
       IN
       IF r.k = "raise" THEN Return(p, f, "error")
       ELSE IF judg = T_yes THEN Suspend(p, [f EXCEPT !.judg = judg], "await_cid")
       ELSE Return(p, [f EXCEPT !.judg = judg], "notrelevant")
    /\ UNCHANGED <<enabled, providerCfg, cached, warnings, history, log, outb, nEvents>>

\* mutant: the session identity is the current id even when there is none
CidReturn_NoFallback(p, c) ==
    /\ slots[p].pc = "await_cid"
    /\ LET f == slots[p]
       IN
       IF c = "<raise>" THEN Return(p, f, "error")
       ELSE Suspend(p, [f EXCEPT !.sid = c, !.key = c], "await_conv")
    /\ UNCHANGED <<enabled, providerCfg, cached, warnings, history, log, outb, nEvents>>

\* lines 165-192: get_curr_conversation_id answers (or raises); the session
\* identity is chosen and get_conversation is awaited under it
CidReturn(p, c) ==
    /\ slots[p].pc = "await_cid"
    /\ LET f == slots[p]
           sid == IF CidTruthy(c) THEN c ELSE Str(f.group)
       IN
       IF c = "<raise>" THEN Return(p, f, "error")
       ELSE Suspend(p, [f EXCEPT !.sid = sid, !.key = sid], "await_conv")
    /\ UNCHANGED <<enabled, providerCfg, cached, warnings, history, log, outb, nEvents>>

\* mutant: a payload that fails to decode ends the handler in the outer except
ConvReturn_DecodeFatal(p, cv, dispatchRaises) ==
    /\ slots[p].pc = "await_conv"
    /\ LET f == slots[p]
           conv == IF cv.k = "conv" THEN cv ELSE NoConv
           ctx == IF cv.k = "conv" THEN DecodeContexts(cv) ELSE <<>>
           g == [f EXCEPT !.conv = conv, !.ctx = ctx]
           request == [prompt |-> f.text, session_id |-> f.sid,
                       contexts |-> ctx, conversation |-> conv]
       IN
       IF cv.k = "raise" THEN Return(p, f, "error")
       ELSE IF cv.k = "conv" /\ ~JsonLoads(cv.history).ok THEN Return(p, g, "error")
       ELSE IF dispatchRaises THEN Return(p, g, "error")
       ELSE Suspend(p, [g EXCEPT !.req = Append(f.req, request)], "yielded")
    /\ UNCHANGED <<enabled, providerCfg, cached, warnings, history, log, outb, nEvents>>

\* mutant: the escalated prompt is read from the channel's buffer when the
\* request is built
ConvReturn_PromptFromHistory(p, cv, dispatchRaises) ==
    /\ slots[p].pc = "await_conv"
    /\ LET f == slots[p]
           conv == IF cv.k = "conv" THEN cv ELSE NoConv
           ctx == IF cv.k = "conv" THEN DecodeContexts(cv) ELSE <<>>
           g == [f EXCEPT !.conv = conv, !.ctx = ctx]
           now == GetHistoryMessages(history, f.group)
           request == [prompt |-> IF now = <<>> THEN <<>> ELSE now[Len(now)],
                       session_id |-> f.sid,
                       contexts |-> ctx, conversation |-> conv]
       IN
       IF cv.k = "raise" THEN Return(p, f, "error")
       ELSE IF dispatchRaises THEN Return(p, g, "error")
       ELSE Suspend(p, [g EXCEPT !.req = Append(f.req, request)], "yielded")
    /\ UNCHANGED <<enabled, providerCfg, cached, warnings, history, log, outb, nEvents>>

\* lines 172-216: get_conversation answers (or raises); the prior context is
\* decoded and event.request_llm(...) is built (or raises) and yielded
ConvReturn(p, cv, dispatchRaises) ==
    /\ slots[p].pc = "await_conv"
    /\ LET f == slots[p]
           conv == IF cv.k = "conv" THEN cv ELSE NoConv
           ctx == IF cv.k = "conv" THEN DecodeContexts(cv) ELSE <<>>
           g == [f EXCEPT !.conv = conv, !.ctx = ctx]
           request == [prompt |-> f.text, session_id |-> f.sid,
                       contexts |-> ctx, conversation |-> conv]
       IN
       IF cv.k = "raise" THEN Return(p, f, "error")
       ELSE IF dispatchRaises THEN Return(p, g, "error")
       ELSE Suspend(p, [g EXCEPT !.req = Append(f.req, request)], "yielded")
    /\ UNCHANGED <<enabled, providerCfg, cached, warnings, history, log, outb, nEvents>>

\* mutant: the generator ends after the yield without event.stop_event()
Resume_NoStop(p) ==
    /\ slots[p].pc = "yielded"
    /\ Return(p, slots[p], "escalated")
    /\ UNCHANGED <<enabled, providerCfg, cached, warnings, history, log, outb, nEvents>>

\* lines 218-220: the host resumes the generator after the yield; event.stop_event()
Resume(p) ==
    /\ slots[p].pc = "yielded"
    /\ Return(p, [slots[p] EXCEPT !.handled = TRUE], "escalated")
    /\ UNCHANGED <<enabled, providerCfg, cached, warnings, history, log, outb, nEvents>>

---------------------------------------------------------------------------
(* Outbound events *)

Plain(t) == [plain |-> TRUE, text |-> t]
Image == [plain |-> FALSE, text |-> <<>>]

\* result.chain: no component, no text, the annotation alone, an annotated
\* text, and two text segments around an image, the second one annotated
Chains ==
    {<<>>, <<Image>>, <<Plain(T_pre)>>, <<Plain(T_pre_hi)>>,
     <<Plain(T_hi), Image, Plain(T_pre_yo)>>}

\* event.get_result(): None, or a result with a chain
NoResult == [has |-> FALSE, chain |-> <<>>]
Result(c) == [has |-> TRUE, chain |-> c]

\* kind: "group_msg" (event_type is GROUP_MESSAGE), "attr" (the event has a
\* group_id attribute), "other" (neither)
OutEvents ==
    [kind : {"group_msg", "attr", "other"}, group : GroupIds,
     res : {NoResult} \cup {Result(c) : c \in Chains}]

\* _extract_text_from_message_chain
RECURSIVE ExtractTextFromMessageChain(_)
ExtractTextFromMessageChain(chain) ==
    IF chain = <<>> THEN <<>>
    ELSE (IF Head(chain).plain THEN Head(chain).text ELSE <<>>)
         \o ExtractTextFromMessageChain(Tail(chain))

\* mutant: only the first component of the chain is cleaned
CleanChain_FirstOnly(chain) ==
    [i \in 1..Len(chain) |->
        IF chain[i].plain /\ i = 1 THEN Plain(Normalize(chain[i].text)) ELSE chain[i]]

\* lines 291-296: every Plain component's text replaced by its cleaned text
CleanChain(chain) ==
    [i \in 1..Len(chain) |->
        IF chain[i].plain THEN Plain(Normalize(chain[i].text)) ELSE chain[i]]

\* mutant: the channel is not compared with the whitelist
OutboundFilter_NoWhitelist(ev) ==
    IF ~enabled THEN "disabled"
    ELSE IF ev.kind = "other" THEN "nogroupattr"
    ELSE IF ~Truthy(ev.group) THEN "nogroup"
    ELSE IF ~ev.res.has \/ ev.res.chain = <<>> THEN "noresult"
    ELSE IF ExtractTextFromMessageChain(ev.res.chain) = <<>> THEN "emptytext"
    ELSE "pass"

\* lines 236-280: the reason the handler returns early, or "pass"
OutboundFilter(ev) ==
    IF ~enabled THEN "disabled"
    ELSE IF ev.kind = "other" THEN "nogroupattr"
    ELSE IF ~Truthy(ev.group) THEN "nogroup"
    ELSE IF Str(ev.group) \notin group_whitelist THEN "notwhitelisted"
    ELSE IF ~ev.res.has \/ ev.res.chain = <<>> THEN "noresult"
    ELSE IF ExtractTextFromMessageChain(ev.res.chain) = <<>> THEN "emptytext"
    ELSE "pass"

\* on_message_decorated (no await: one step)
OnMessageDecorated(ev) ==
    /\ nEvents' = nEvents + 1
    /\ UNCHANGED <<enabled, providerCfg, cached, warnings, slots>>
    /\ LET why == OutboundFilter(ev)
           cleaned == Normalize(ExtractTextFromMessageChain(ev.res.chain))
       IN
       IF why # "pass"
       THEN /\ outb' = [out |-> why, orig |-> ev.res.chain, chain |-> ev.res.chain,
                        added |-> <<>>]
            /\ UNCHANGED <<history, log>>
       ELSE /\ history' = AddMessageToHistory(history, ev.group, cleaned)
            /\ log' = LogAppend(log, ev.group, cleaned)
            /\ outb' = [out |-> "sent", orig |-> ev.res.chain,
                        chain |-> CleanChain(ev.res.chain), added |-> cleaned]

\* mutant: terminate drops the cached provider and keeps the buffers
Terminate_KeepsHistory ==
    /\ nEvents' = nEvents + 1
    /\ cached' = FALSE
    /\ UNCHANGED <<enabled, providerCfg, warnings, slots, outb, history, log>>

\* terminate
Terminate ==
    /\ nEvents' = nEvents + 1
    /\ cached' = FALSE
    /\ history' = EmptyTable
    /\ log' = EmptyTable
    /\ UNCHANGED <<enabled, providerCfg, warnings, slots, outb>>

---------------------------------------------------------------------------
(* Specification *)

Init ==
    /\ enabled \in BOOLEAN
    /\ providerCfg \in {"unset", "notfound", "found"}
    /\ cached = FALSE
    /\ warnings = 0
    /\ history = EmptyTable
    /\ log = EmptyTable
    /\ slots = [p \in Procs |-> IdleFrame]
    /\ outb = IdleOut
    /\ nEvents = 0

Free(p) == slots[p].pc \in {"idle", "done"}

\* a new invocation takes the first frame never used, or else the first one
\* whose invocation has returned
FirstFree(p) ==
    IF \E q \in Procs : slots[q].pc = "idle"
    THEN slots[p].pc = "idle" /\ (p = "h2" => slots["h1"].pc # "idle")
    ELSE Free(p) /\ (p = "h2" => ~Free("h1"))

InboundArrives ==
    /\ nEvents < MaxEvents
    /\ \E p \in Procs, ev \in InEvents : FirstFree(p) /\ InboundStart(p, ev)

ClassifierAnswers == \E p \in Procs, r \in Responses : SlmReturn(p, r)

CurrentIdAnswers == \E p \in Procs, c \in CidAnswers : CidReturn(p, c)

ConversationAnswers ==
    \E p \in Procs, cv \in ConvAnswers, b \in BOOLEAN : ConvReturn(p, cv, b)

GeneratorResumed == \E p \in Procs : Resume(p)

OutboundDecorated ==
    /\ nEvents < MaxEvents
    /\ \E ev \in OutEvents : OnMessageDecorated(ev)

PluginTerminates == nEvents < MaxEvents /\ Terminate

Next ==
    \/ InboundArrives
    \/ ClassifierAnswers
    \/ CurrentIdAnswers
    \/ ConversationAnswers
    \/ GeneratorResumed
    \/ OutboundDecorated
    \/ PluginTerminates

Spec == Init /\ [][Next]_vars

---------------------------------------------------------------------------
(* Long runs on the history table: direct-address messages and bot replies *)
(* on the whitelisted channel, under both of its keys                      *)

MaxAppends == 7

HistInEvents ==
    {ev \in InEvents :
        ev.group \in {G100s, G100i} /\ ev.text \in {T_hi, T_pre_yo} /\ ~ev.self /\ ev.at}

HistOutEvents ==
    {ev \in OutEvents :
        /\ ev.kind = "group_msg" /\ ev.group = G100s
        /\ ev.res \in {Result(<<Plain(T_pre_hi)>>), Result(<<Plain(T_pre)>>)}}

InitHist == Init /\ enabled /\ providerCfg = "unset"

HistInbound ==
    /\ nEvents < MaxAppends
    /\ \E p \in Procs, ev \in HistInEvents : FirstFree(p) /\ InboundStart(p, ev)

HistOutbound ==
    /\ nEvents < MaxAppends
    /\ \E ev \in HistOutEvents : OnMessageDecorated(ev)

HistTerminate == nEvents < MaxAppends /\ Terminate

NextHist == HistInbound \/ HistOutbound \/ HistTerminate

SpecHist == InitHist /\ [][NextHist]_vars

---------------------------------------------------------------------------
(* The prefix pattern applied to every short text: the first outgoing      *)
(* message of a run is a single text segment on the whitelisted channel    *)

MaxNormLen == 4

NormAlphabet == {"[", "/", "]", ":", " ", "a", "\n"}

T_stacked == T_pre \o T_pre_yo
T_stacked_bare == <<"[", "/", "]", ":", "[", "/", "]", ":", "a">>

\* every text of at most MaxNormLen characters, and two texts that start
\* with two annotations
NormTexts ==
    UNION {[1..n -> NormAlphabet] : n \in 0..MaxNormLen}
        \cup {T_stacked, T_stacked_bare}

NormOutbound ==
    /\ nEvents = 0
    /\ \E t \in NormTexts :
          OnMessageDecorated([kind |-> "group_msg", group |-> G100s,
                              res |-> Result(<<Plain(t)>>)])

NextNorm == NormOutbound

SpecNorm == InitHist /\ [][NextNorm]_vars

---------------------------------------------------------------------------
(* Runs around terminate: a classifier provider is found, messages and bot *)
(* replies arrive on the whitelisted channel under both of its keys        *)

MaxTermEvents == 3

TermInEvents ==
    {ev \in InEvents :
        ev.group \in {G100s, G100i} /\ ev.text \in {T_hi, T_pre_yo} /\ ~ev.self}

InitTerm == Init /\ enabled /\ providerCfg = "found"

TermInbound ==
    /\ nEvents < MaxTermEvents
    /\ \E p \in Procs, ev \in TermInEvents : FirstFree(p) /\ InboundStart(p, ev)

TermOutbound ==
    /\ nEvents < MaxTermEvents
    /\ \E ev \in HistOutEvents : OnMessageDecorated(ev)

TermTerminate == nEvents < MaxTermEvents /\ Terminate

NextTerm ==
    \/ TermInbound
    \/ ClassifierAnswers
    \/ CurrentIdAnswers
    \/ ConversationAnswers
    \/ GeneratorResumed
    \/ TermOutbound
    \/ TermTerminate

SpecTerm == InitTerm /\ [][NextTerm]_vars

---------------------------------------------------------------------------
(* Claims *)

\* The responses of Responses whose text, trimmed and lowercased, is "yes",
\* written out
YesResponses == {RespText(<<"y", "e", "s">>), RespText(<<" ", "Y", "e", "S", "\n">>)}

\* C1: a message that reached the classifier goes on to session resolution
\* (and from there to the escalation) exactly when the classifier's answer,
\* trimmed and lowercased, is "yes"; with None, an empty text, any other text
\* or a raised error the handler returns with nothing dispatched, and a frame
\* that has dispatched an escalation has the verdict "yes".
C1_YesIffEscalationPath ==
    [][/\ \A p \in Procs, r \in Responses :
            SlmReturn(p, r) =>
                /\ (slots'[p].pc = "await_cid") <=> (r \in YesResponses)
                /\ r \notin YesResponses =>
                      /\ slots'[p].pc = "done"
                      /\ slots'[p].req = <<>>
                      /\ ~slots'[p].handled
       /\ \A p \in Procs :
            (slots'[p].pc \in {"await_cid", "await_conv", "yielded"} \/ slots'[p].req # <<>>)
                => slots'[p].judg = <<"y", "e", "s">>]_vars

C1_Witness ==
    \E p, q \in Procs :
        /\ slots[p].out = "escalated" /\ slots[p].req # <<>>
        /\ slots[q].out = "notrelevant" /\ slots[q].judg = T_yes_please

\* C2: an event is marked handled only after an escalation was dispatched for
\* it; the step that follows a dispatch marks the event handled, so that a
\* returned handler has marked its event handled exactly when it dispatched
\* an escalation; an event that was filtered, was a direct address, had no
\* provider, was judged not relevant or ended in a caught failure is never
\* marked handled.
C2_HandledIffEscalated ==
    /\ [](\A p \in Procs :
            /\ slots[p].handled => Len(slots[p].req) = 1
            /\ slots[p].pc = "done" => (slots[p].handled <=> slots[p].req # <<>>)
            /\ slots[p].out # "escalated" => ~slots[p].handled)
    /\ [][\A p \in Procs :
            (slots[p].pc = "yielded" /\ slots'[p] # slots[p]) =>
                /\ slots'[p].handled
                /\ slots'[p].pc = "done"
                /\ slots'[p].req = slots[p].req]_vars

C2_Witness ==
    \E p, q \in Procs :
        /\ slots[p].out = "escalated" /\ slots[p].handled
        /\ slots[q].out = "notrelevant" /\ ~slots[q].handled

\* The texts appended under key g since its buffer was created
Appended(g) == IF g \in DOMAIN log THEN log[g] ELSE <<>>

\* C3: for every key, the snapshot is the sequence of the texts appended
\* under it, in arrival order, when there are at most 5, and the last 5 of
\* them otherwise; it never holds more than 5, and is empty for a key with
\* no append.
C3_SnapshotIsLastFive ==
    \A g \in GroupIds :
        LET l == Appended(g)
            snapshot == GetHistoryMessages(history, g)
        IN /\ Len(snapshot) <= 5
           /\ Len(l) <= 5 => snapshot = l
           /\ Len(l) > 5 => snapshot = [i \in 1..5 |-> l[Len(l) - 5 + i]]
           /\ (g \notin DOMAIN log) => snapshot = <<>>

C3_Witness ==
    \E g \in DOMAIN log :
        /\ Len(log[g]) > 5
        /\ log[g][1] # log[g][6]
        /\ history[g] # SubSeq(log[g], 1, 5)

\* C4: every stored entry is a non-empty text and every buffer that exists
\* holds an entry; a handler whose text is empty (the inbound text empty
\* after normalization, the outbound text empty after normalization) leaves
\* the history table as it was.
C4_EntriesNonEmpty ==
    /\ [](\A g \in DOMAIN history :
            /\ history[g] # <<>>
            /\ \A i \in 1..Len(history[g]) : history[g][i] # <<>>)
    /\ [][/\ (outb' # outb /\ outb'.out = "sent" /\ outb'.added = <<>>)
                => history' = history
          /\ \A p \in Procs :
                (slots'[p] # slots[p] /\ slots'[p].out = "empty_after_clean")
                    => history' = history]_vars

C4_Witness ==
    /\ outb.out = "sent" /\ outb.added = <<>> /\ outb.orig = <<Plain(T_pre)>>
    /\ history = EmptyTable
    /\ \E p \in Procs : slots[p].out = "empty_after_clean"

\* The events the filters let through, and their normalized text, written out
Accepted(ev) ==
    enabled /\ ev.group \in {G100s, G100i} /\ ~ev.self /\ ev.text \in {T_hi, T_pre_yo}

CleanOf(t) == IF t = T_pre_yo THEN <<"y", "o">> ELSE t

LastFive(q) == IF Len(q) <= 5 THEN q ELSE SubSeq(q, Len(q) - 4, Len(q))

\* history' is history with text t appended under key g
AppendedTo(g, t) ==
    /\ DOMAIN history' = (DOMAIN history) \cup {g}
    /\ history'[g] = LastFive(Append(GetHistoryMessages(history, g), t))
    /\ \A k \in DOMAIN history : k # g => history'[k] = history[k]

\* The invocation started in frame p has returned and touched no collaborator
Untouched(f) ==
    /\ f.pc = "done"
    /\ f.lookups = 0
    /\ f.calls = 0
    /\ f.req = <<>>
    /\ ~f.handled

\* The inbound events a step can have started in frame p: a start leaves the
\* event's channel in the frame and every other frame as it was (this only
\* sets aside the events and frames the step cannot be about)
StartableIn(p) ==
    IF slots'[p].pc # "idle" /\ \A q \in Procs \ {p} : slots'[q] = slots[q]
    THEN [group : {slots'[p].group}, text : RawTexts, self : BOOLEAN, at : BOOLEAN]
    ELSE {}

\* The outbound events a step can have handled: the handler records the chain
\* it was given
Decoratable == {ev \in OutEvents : ev.res.chain = outb'.orig}

\* C5: a direct-address message that passes the filters is appended,
\* normalized, to its channel's history, and the handler returns having made
\* no provider lookup, no classifier call and no escalation and without
\* marking the event handled.
C5_DirectAddressRecordedOnly ==
    [][(nEvents' # nEvents /\ outb' = outb) =>
        \A p \in Procs : \A ev \in StartableIn(p) :
            (ev.at /\ Accepted(ev) /\ InboundStart(p, ev)) =>
                /\ AppendedTo(ev.group, CleanOf(ev.text))
                /\ Untouched(slots'[p])
                /\ slots'[p].out = "direct"
                /\ UNCHANGED <<cached, warnings>>]_vars

C5_Witness ==
    \E p \in Procs :
        /\ slots[p].out = "direct"
        /\ providerCfg = "found" /\ ~cached
        /\ slots[p].group \in DOMAIN history
        /\ history[slots[p].group] = <<slots[p].text>>
        /\ slots[p].text = T_yo

\* C6: the conversation is looked up, and the escalation dispatched, under
\* the current conversation id when the manager reports one and under the
\* channel identity as a string otherwise; the dispatched request carries the
\* normalized text as prompt and that identity, and when no conversation is
\* found it is still dispatched, with empty prior context and no handle.
C6_SessionIdentity ==
    [][/\ \A p \in Procs, c \in CidAnswers \ {"<raise>"} :
            CidReturn(p, c) =>
                LET id == IF c \in {CidNone, ""} THEN slots[p].group.v ELSE c
                IN /\ slots'[p].pc = "await_conv"
                   /\ slots'[p].sid = id
                   /\ slots'[p].key = id
       /\ \A p \in Procs, cv \in ConvAnswers \ {ConvRaise} :
            ConvReturn(p, cv, FALSE) =>
                /\ slots'[p].pc = "yielded"
                /\ Len(slots'[p].req) = 1
                /\ slots'[p].req[1].prompt = slots[p].text
                /\ slots[p].text \in {T_hi, T_yo}
                /\ slots'[p].req[1].session_id = slots[p].sid
                /\ slots[p].key = slots[p].sid
                /\ cv = NoConv =>
                      /\ slots'[p].req[1].contexts = <<>>
                      /\ slots'[p].req[1].conversation = NoConv]_vars

C6_Witness ==
    \E p, q \in Procs :
        /\ slots[p].req # <<>>
        /\ slots[p].group = G100i
        /\ slots[p].req[1] = [prompt |-> T_yo, session_id |-> "100",
                              contexts |-> <<>>, conversation |-> NoConv]
        /\ slots[q].req # <<>>
        /\ slots[q].req[1].session_id = "c1"

\* C7: a found conversation whose serialized history fails to decode does
\* not stop the escalation: it is dispatched with empty prior context, the
\* session identity chosen before the lookup, and the found conversation as
\* handle.
C7_DecodeFailureStillEscalates ==
    [][\A p \in Procs :
            ConvReturn(p, Conv("["), FALSE) =>
                /\ slots'[p].pc = "yielded"
                /\ slots'[p].req =
                       <<[prompt |-> slots[p].text, session_id |-> slots[p].sid,
                          contexts |-> <<>>, conversation |-> Conv("[")]>>]_vars

C7_Witness ==
    \E p, q \in Procs :
        /\ slots[p].out = "escalated"
        /\ slots[p].req[1].conversation = Conv("[")
        /\ slots[p].req[1].contexts = <<>>
        /\ slots[q].out = "escalated"
        /\ slots[q].req[1].conversation = Conv("[1]")
        /\ slots[q].req[1].contexts = <<1>>
        /\ slots[q].req[1].session_id = slots[p].req[1].session_id

\* C8: when the classifier call, a conversation-manager lookup or the
\* dispatch raises, the handler returns with the failure caught: the history
\* table is as it was, nothing is dispatched, the event is not marked
\* handled, and the classifier has been called once and is not called again.
C8_FailureIsCaught ==
    /\ [](\A p \in Procs : slots[p].calls <= 1 /\ Len(slots[p].req) <= 1)
    /\ [][\A p \in Procs :
            (\/ SlmReturn(p, RespRaise)
             \/ CidReturn(p, "<raise>")
             \/ \E cv \in ConvAnswers, b \in BOOLEAN :
                    (cv = ConvRaise \/ b) /\ ConvReturn(p, cv, b))
            => /\ slots'[p].pc = "done"
               /\ slots'[p].out = "error"
               /\ slots'[p].req = <<>>
               /\ ~slots'[p].handled
               /\ slots'[p].calls = 1
               /\ UNCHANGED <<history, log>>]_vars

C8_Witness ==
    \E p, q \in Procs :
        /\ slots[p].out = "error" /\ slots[p].judg = <<>>
        /\ slots[q].out = "error" /\ slots[q].judg = T_yes /\ slots[q].conv # NoConv
        /\ slots[p].group = slots[q].group
        /\ history[slots[p].group] = <<slots[p].text, slots[q].text>>

\* Channel identities that are missing or not whitelisted, written out
NoChannel(g) == g = GNone \/ g = G200s

\* C9: with the plugin disabled, or the channel identity missing or not in
\* the whitelist, neither handler changes anything: the history table, the
\* provider cache, every other frame and the outgoing chain stay as they
\* were, and no classifier call, escalation or handled mark is made.
C9_FilteredChangesNothing ==
    [][nEvents' # nEvents =>
        /\ outb' = outb =>
            \A p \in Procs : \A ev \in StartableIn(p) :
              ((~enabled \/ NoChannel(ev.group)) /\ InboundStart(p, ev)) =>
                  /\ UNCHANGED <<history, log, cached, warnings, outb>>
                  /\ Untouched(slots'[p])
                  /\ \A q \in Procs \ {p} : slots'[q] = slots[q]
        /\ slots' = slots =>
            \A ev \in Decoratable :
              ((~enabled \/ NoChannel(ev.group) \/ ev.kind = "other")
                    /\ OnMessageDecorated(ev)) =>
                  /\ UNCHANGED <<history, log, cached, warnings, slots>>
                  /\ outb'.chain = ev.res.chain]_vars

C9_Witness ==
    \E p \in Procs :
        /\ slots[p].out = "notwhitelisted"
        /\ outb.out = "notwhitelisted"
        /\ outb.chain = <<Plain(T_pre_hi)>>
        /\ history = EmptyTable

\* C10: on a whitelisted channel, a message sent by the bot itself, with an
\* empty raw text or with a text empty after normalization leaves the history
\* table unchanged and causes no provider lookup, classifier call, escalation
\* or handled mark, direct address or not.
C10_SelfOrEmptyIgnored ==
    [][(nEvents' # nEvents /\ outb' = outb) =>
        \A p \in Procs : \A ev \in StartableIn(p) :
            (/\ ev.group \in {G100s, G100i}
             /\ (ev.self \/ ev.text = <<>> \/ ev.text = T_pre)
             /\ InboundStart(p, ev)) =>
                /\ UNCHANGED <<history, log, cached, warnings>>
                /\ Untouched(slots'[p])]_vars

C10_Witness ==
    \E p, q \in Procs :
        /\ enabled
        /\ slots[p].out = "empty_or_self"
        /\ slots[q].out = "empty_after_clean"
        /\ history = EmptyTable

\* The outgoing events of a whitelisted channel that carry a non-empty chain
Outgoing(ev) ==
    /\ enabled
    /\ ev.kind # "other"
    /\ ev.group \in {G100s, G100i}
    /\ ev.res.has
    /\ ev.res.chain # <<>>

\* The normalization of the segment texts of Chains, written out
SegmentCleaned(t) ==
    IF t = T_pre THEN <<>>
    ELSE IF t = T_pre_hi THEN <<"h", "i">>
    ELSE IF t = T_pre_yo THEN <<"y", "o">>
    ELSE t

\* C11: for an outgoing message on a whitelisted channel with a non-empty
\* chain, the chain that is delivered has as many components as the chain
\* the handler was given, in the same order; every non-text component is the
\* one given, and every text component holds the normalization of the text
\* given (one leading annotation removed); a single segment "[a/b]: hi" is
\* delivered as "hi".
C11_SegmentsCleanedInPlace ==
    [][(nEvents' # nEvents /\ slots' = slots) =>
        \A ev \in Decoratable :
            (Outgoing(ev) /\ OnMessageDecorated(ev)) =>
                LET given == ev.res.chain
                    sent == outb'.chain
                IN /\ Len(sent) = Len(given)
                   /\ \A i \in 1..Len(given) :
                         IF given[i].plain
                         THEN sent[i] = Plain(SegmentCleaned(given[i].text))
                         ELSE sent[i] = given[i]
                   /\ given = <<Plain(T_pre_hi)>> => sent = <<Plain(T_hi)>>]_vars

C11_Witness ==
    /\ outb.out = "sent"
    /\ outb.orig = <<Plain(T_hi), Image, Plain(T_pre_yo)>>
    /\ outb.chain = <<Plain(T_hi), Image, Plain(T_yo)>>
    /\ G100s \in DOMAIN history

\* C12: for an outgoing message on a whitelisted channel, the entry the
\* outbound handler appends to the channel's history is the concatenation of
\* the text segments as they are delivered, each one normalized, and it goes
\* after the entries the buffer already holds; when that concatenation is
\* empty the history table stays as it was.
C12_HistoryGetsDeliveredText ==
    [][(nEvents' # nEvents /\ slots' = slots) =>
        \A ev \in Decoratable :
            (Outgoing(ev) /\ OnMessageDecorated(ev)) =>
                LET delivered == ExtractTextFromMessageChain(outb'.chain)
                IN IF delivered = <<>>
                   THEN history' = history
                   ELSE AppendedTo(ev.group, delivered)]_vars

\* The invocation in frame p takes its snapshot and calls the classifier in
\* this step
CallsClassifier(p) == slots[p].pc # "await_slm" /\ slots'[p].pc = "await_slm"

\* C13: the history handed to the classifier prompt for an inbound message
\* is the channel's buffer as it was before that message was accepted; the
\* prompt is the one built from that buffer and the message, so the message
\* is not among the enumerated turns, and when the buffer was empty the
\* prompt carries the no-history placeholder.
C13_PromptListsEarlierUpdatesOnly ==
    [][\A p \in Procs :
        CallsClassifier(p) =>
            LET before == GetHistoryMessages(history, slots'[p].group)
                prompt == SlmPrompt(slots'[p])
            IN /\ slots'[p].snap = before
               /\ prompt = BuildSlmPrompt(before, slots'[p].text)
               /\ before = <<>> =>
                     \E i \in 1..Len(prompt) : prompt[i] = NoHistoryLine[1]]_vars

\* C14: the history table is written only by the step in which a handler
\* accepts its message (or by terminate), never by a step that continues an
\* invocation after an await; the accepting step puts the text of its own
\* message after every entry the channel's buffer holds.  The entries of a
\* buffer are therefore in the order in which the handlers accepted them,
\* whatever invocations are still waiting for the classifier or the
\* conversation manager.
C14_HistoryInArrivalOrder ==
    [][history' # history =>
        /\ nEvents' = nEvents + 1
        /\ \/ history' = EmptyTable /\ slots' = slots /\ outb' = outb
           \/ \E g \in GroupIds :
                /\ slots' = slots
                /\ outb'.out = "sent"
                /\ AppendedTo(g, outb'.added)
           \/ \E p \in Procs :
                /\ \A q \in Procs \ {p} : slots'[q] = slots[q]
                /\ outb' = outb
                /\ slots'[p].out \in {"direct", "noprovider", "none"}
                /\ slots'[p].pc \in {"done", "await_slm"}
                /\ AppendedTo(slots'[p].group, slots'[p].text)]_vars

C14_Witness ==
    \E p \in Procs :
        /\ slots[p].pc = "await_cid"
        /\ slots[p].text = T_yo
        /\ slots[p].group = G100s
        /\ outb.out = "sent"
        /\ outb.added = T_hi
        /\ history[G100s] = <<T_yo, T_hi>>

\* C15: while no classifier provider is configured, or the configured id is
\* not found, no invocation calls the classifier, dispatches an escalation,
\* marks its event handled, waits at an await or ends in a failure, and
\* nothing is cached; every inbound message that passes the filters is
\* still appended, normalized, to its channel's history, and its handler
\* returns.
C15_NoProviderNeverEscalates ==
    /\ [](providerCfg # "found" =>
            /\ ~cached
            /\ \A p \in Procs :
                  /\ slots[p].calls = 0
                  /\ slots[p].req = <<>>
                  /\ ~slots[p].handled
                  /\ slots[p].pc \in {"idle", "done"}
                  /\ slots[p].out # "error")
    /\ [][(providerCfg # "found" /\ nEvents' # nEvents /\ outb' = outb) =>
            \A p \in Procs : \A ev \in StartableIn(p) :
                (Accepted(ev) /\ InboundStart(p, ev)) =>
                    /\ AppendedTo(ev.group, CleanOf(ev.text))
                    /\ slots'[p].pc = "done"
                    /\ slots'[p].out = (IF ev.at THEN "direct" ELSE "noprovider")]_vars

C15_Witness ==
    \E p, q \in Procs :
        /\ providerCfg = "notfound"
        /\ slots[p].out = "noprovider" /\ slots[p].lookups = 1
        /\ slots[q].out = "noprovider" /\ slots[q].lookups = 1
        /\ slots[p].group = G100s /\ slots[q].group = G100s
        /\ history[G100s] = <<T_hi, T_yo>>
        /\ slots[p].text = T_hi /\ slots[q].text = T_yo

\* C16: over any sequence of inbound messages handled by one plugin
\* instance, the missing-provider warning is logged at most once.
C16_WarningLoggedOnce == warnings <= 1

\* prompt holds, from position k on, a line "<index>. <Speaker>: <text>" for
\* entry i with text msg and a speaker of n characters
SpeakerLineAt(prompt, k, n, i, msg) ==
    /\ k + 5 + n + Len(msg) <= Len(prompt)
    /\ SubSeq(prompt, k, k + 3) = <<"\n", IndexStr(i), ".", " ">>
    /\ \A j \in (k + 4)..(k + 3 + n) : prompt[j] # "\n"
    /\ SubSeq(prompt, k + 4 + n, k + 5 + n) = <<":", " ">>
    /\ SubSeq(prompt, k + 6 + n, k + 5 + n + Len(msg)) = msg
    /\ prompt[k + 6 + n + Len(msg)] = "\n"

\* C17: every history entry is listed in the classifier prompt with its
\* speaker: for each entry of the snapshot the prompt has the line
\* "<index>. <Speaker>: <text>", index counted from 1 in buffer order and
\* Speaker a non-empty identity (the sender's for an inbound message, the
\* bot's for an outbound one).
C17_PromptNamesSpeakers ==
    \A p \in Procs :
        slots[p].calls = 1 =>
            LET prompt == SlmPrompt(slots[p])
            IN \A i \in 1..Len(slots[p].snap) :
                 \E k \in 1..Len(prompt), n \in 1..Len(prompt) :
                     SpeakerLineAt(prompt, k, n, i, slots[p].snap[i])

\* s is an annotation: "[", anything, "/", anything, "]:", where anything
\* has no line break
IsAnnotation(s) ==
    /\ Len(s) >= 4
    /\ s[1] = "["
    /\ s[Len(s) - 1] = "]"
    /\ s[Len(s)] = ":"
    /\ \E i \in 2..(Len(s) - 2) : s[i] = "/"
    /\ \A i \in 2..(Len(s) - 2) : s[i] # "\n"

\* The length of the shortest annotation t starts with, or 0 if it starts
\* with none
ShortestAnnotation(t) ==
    LET lens == {n \in 1..Len(t) : IsAnnotation(SubSeq(t, 1, n))}
    IN IF lens = {} THEN 0 ELSE CHOOSE n \in lens : \A m \in lens : n <= m

\* C18: normalization removes at most one leading annotation and the
\* whitespace that follows it: a text that does not start with an
\* annotation is returned as it is; otherwise the result is what follows
\* the first annotation and its whitespace, so a text that is only an
\* annotation becomes empty and a text with two stacked annotations keeps
\* the second; normalizing the result again changes it only if the result
\* itself starts with an annotation.
C18_AtMostOneAnnotationRemoved ==
    outb.out \in {"sent", "emptytext"} =>
        LET t == outb.orig[1].text
            r == outb.chain[1].text
            n == ShortestAnnotation(t)
        IN /\ n = 0 => r = t
           /\ n > 0 =>
                 \E m \in n..Len(t) :
                    /\ \A j \in (n + 1)..m : t[j] \in WS
                    /\ m < Len(t) => t[m + 1] \notin WS
                    /\ r = SubSeq(t, m + 1, Len(t))
           /\ (n > 0 /\ \A j \in (n + 1)..Len(t) : t[j] \in WS) => r = <<>>
           /\ t = T_stacked => r = T_pre_yo
           /\ t = T_stacked_bare => r = <<"[", "/", "]", ":", "a">>
           /\ Normalize(r) # r => ShortestAnnotation(r) > 0
           /\ outb.added = r

C18_Witness ==
    /\ outb.out = "sent"
    /\ outb.orig = <<Plain(T_stacked)>>
    /\ outb.chain = <<Plain(T_pre_yo)>>
    /\ Normalize(T_pre_yo) = T_yo

\* C19: terminate drops every buffer and the cached provider in one step:
\* right after it the snapshot of every channel is empty and nothing is
\* cached, whatever was recorded before; and a message accepted while no
\* buffer exists, as after terminate, starts a buffer holding that message
\* alone.
C19_TerminateDropsEverything ==
    [][/\ Terminate =>
            /\ \A g \in GroupIds : GetHistoryMessages(history', g) = <<>>
            /\ DOMAIN history' = {}
            /\ ~cached'
       /\ (history = EmptyTable /\ history' # EmptyTable) =>
            \E g \in GroupIds :
                /\ DOMAIN history' = {g}
                /\ Len(history'[g]) = 1
                /\ \/ slots' = slots /\ outb'.out = "sent" /\ history'[g][1] = outb'.added
                   \/ \E p \in Procs :
                        /\ slots'[p].group = g
                        /\ slots'[p].text = history'[g][1]
                        /\ slots'[p].out \in {"direct", "none"}]_vars

C19_Witness ==
    \E p, q \in Procs :
        /\ slots[p].calls = 1
        /\ slots[p].group = G100s
        /\ slots[p].text = T_hi
        /\ slots[p].snap = <<T_hi>>
        /\ ~cached
        /\ slots[q].out = "direct"
        /\ slots[q].group = G100s
        /\ slots[q].text = T_yo
        /\ history = [g \in {G100s} |-> <<T_yo>>]

\* The invocation of frame f waits at an await or at its yield
Pending(f) == f.pc \in {"await_slm", "await_cid", "await_conv", "yielded"}

\* C20: the step that accepts a message also takes its snapshot, so the
\* frame's snapshot is the channel's buffer right after the message's own
\* append, with the message as its last entry; from then on, whatever other
\* handlers or terminate do to the history table while the invocation waits,
\* its snapshot, its text and so its classifier prompt stay as they were,
\* and the escalation it dispatches carries that text as prompt.
C20_PromptsFixedAtAcceptance ==
    /\ [](\A p \in Procs : \A i \in 1..Len(slots[p].req) :
            slots[p].req[i].prompt = slots[p].text)
    /\ [][\A p \in Procs :
            /\ CallsClassifier(p) =>
                  LET f == slots'[p]
                  IN /\ f.snap = GetHistoryMessages(history', f.group)
                     /\ f.snap = LastFive(Append(GetHistoryMessages(history, f.group), f.text))
                     /\ f.text \in {T_hi, T_yo}
            /\ Pending(slots[p]) =>
                  /\ slots'[p].snap = slots[p].snap
                  /\ slots'[p].text = slots[p].text
                  /\ SlmPrompt(slots'[p]) = SlmPrompt(slots[p])]_vars

C20_Witness ==
    \E p, q \in Procs :
        /\ slots[p].pc = "yielded"
        /\ slots[p].group = G100s
        /\ slots[p].snap = <<T_hi>>
        /\ slots[p].req[1].prompt = T_hi
        /\ slots[q].pc = "await_slm"
        /\ slots[q].group = G100s
        /\ slots[q].snap = <<T_hi, T_yo>>
        /\ history[G100s] = <<T_hi, T_yo, T_hi>>
        /\ outb.out = "sent"

====
